---- MODULE Spec2Model ----
(***************************************************************************)
(* Orange/evaluation/testing.py: the Results container and the resampling  *)
(* protocols CrossValidation, LeaveOneOut and TestOnTrainingData.          *)
(*                                                                         *)
(* Python lists and numpy arrays are functions on 0..len-1, as in the      *)
(* source.  numpy buffers that the source mutates in place live in `heap`  *)
(* and are named by address, so that a view or an alias of a buffer sees   *)
(* the writes made through another name.                                   *)
(***************************************************************************)
EXTENDS Integers, FiniteSets, Sequences, TLC

\* ---------------------------------------------------------------- bounds
MaxRows == 3
MaxFitters == 2
NClasses == 2

\* CrossValidation.__init__: kwargs.pop('k', 10)
DefaultK == 10

VARIABLES
    heap,      \* address -> numpy buffer
    data0,     \* the caller's dataset as it was handed over (never written)
    self,      \* the protocol object built by Testing.__new__
    pc,        \* where the caller / the running protocol stands
    ret,       \* what the construction or invocation gave back
    err,       \* the exception that ended it, "" when none
    oneShot,   \* the run was started by the constructor itself
    nfit,      \* len(fitters) of the running call
    results,   \* the Results instance being filled
    indices,   \* CrossValidation: the (train, test) pairs of KFold
    fold,      \* CrossValidation / LeaveOneOut: loop position
    ptr,       \* CrossValidation: ptr
    loo,       \* LeaveOneOut: addresses of the working buffers X, Y, metas, W
    cycles,    \* every fitter(train) / model(test) performed by this run
    gf,        \* the last get_fold call: what it built and what it returned
    ctor       \* the construction under way or just made: arguments, outcome

vars == <<heap, data0, self, pc, ret, err, oneShot, nfit, results, indices,
          fold, ptr, loo, cycles, gf, ctor>>

\* ------------------------------------------------------- arrays and lists
Len0(a) == Cardinality(DOMAIN a)

Min(a, b) == IF a < b THEN a ELSE b

Append0(a, e) == [j \in 0..Len0(a) |-> IF j < Len0(a) THEN a[j] ELSE e]

\* np.arange(n)
Arange(n) == [j \in 0..(n - 1) |-> j]

\* a[lo:hi] with Python's clipping of the bounds to len(a)
SliceOf(a, lo, hi) ==
    LET l == Min(lo, Len0(a))
        h == Min(hi, Len0(a))
    IN  [j \in 0..(h - l - 1) |-> a[l + j]]

\* a[idx] for an index array idx (fancy indexing, a new array)
Take(a, idx) == [j \in DOMAIN idx |-> a[idx[j]]]

\* a[lo:hi] = v, v an array of hi-lo elements
SetSlice(a, lo, hi, v) ==
    [j \in DOMAIN a |-> IF lo <= j /\ j < hi THEN v[j - lo] ELSE a[j]]

\* ------------------------------------------------------------- the dataset
\* Addresses of the caller's buffers data.X, data.Y, data.metas, data.W.
DataAddr == [X |-> 1, Y |-> 2, metas |-> 3, W |-> 4]
NBufs == 4
Addrs == 1..(2 * NBufs)

WeightKinds == {"none", "zero", "pos"}

\* A table of n rows: one feature, a discrete target with NClasses values,
\* one meta column, and weights (none; 0,1,2,..; or 1,2,3,..).
MkData(n, w) ==
    [X     |-> [r \in 0..(n - 1) |-> 10 + r],
     Y     |-> [r \in 0..(n - 1) |-> (r + 1) % NClasses],
     metas |-> [r \in 0..(n - 1) |-> 30 + r],
     W     |-> IF w = "none" THEN << >>
               ELSE [r \in 0..(n - 1) |-> IF w = "zero" THEN r ELSE r + 1],
     hasW  |-> w # "none"]

\* len(data)
NRows == Len0(heap[DataAddr.X])

\* data.has_weights()
HasWeights == data0.hasW

\* The caller's dataset as a table value, read from its buffers now.
DataTable ==
    [X |-> heap[DataAddr.X], Y |-> heap[DataAddr.Y],
     metas |-> heap[DataAddr.metas], W |-> heap[DataAddr.W]]

\* data[idx]: row selection, a new table
TableSelect(t, idx) ==
    [X |-> Take(t.X, idx), Y |-> Take(t.Y, idx), metas |-> Take(t.metas, idx),
     W |-> IF Len0(t.W) = 0 THEN << >> ELSE Take(t.W, idx)]

\* ------------------------------------------------------- fitters and models
\* fitter i called on a training table gives a model handle; the model
\* called on a test table gives one value and one probability row per row.
Fit(i, train) == [fitter |-> i, train |-> train]

Value(model, test, j) ==
    [fitter |-> model.fitter, trainX |-> model.train.X, x |-> test.X[j]]

Values(model, test) == [j \in DOMAIN test.X |-> Value(model, test, j)]

Probs(model, test) ==
    [j \in DOMAIN test.X |-> [c \in 0..(NClasses - 1) |-> Value(model, test, j)]]

\* ------------------------------------------------------------------ Results
\* np.empty: the cells hold whatever was in memory.  The marker below (and -1
\* in actual, row_indices) stands for that unknown content: a cell is read
\* only after the protocol has written it.
GarbageValue == [fitter |-> -1, trainX |-> << >>, x |-> -1]

NoResults ==
    [data |-> "None", modelsNone |-> TRUE, models |-> << >>,
     foldsNone |-> TRUE, folds |-> << >>, attrs |-> {},
     actual |-> << >>, row_indices |-> << >>,
     predicted |-> << >>, probabilities |-> << >>]

\* Results.__init__(data, nmethods, store_data=...): `if data:` is len(data) > 0
ResultsInit(n, nmethods, store_data) ==
    LET known == n > 0
    IN  [data |-> IF store_data THEN "data" ELSE "None",
         modelsNone |-> TRUE, models |-> << >>,
         foldsNone |-> TRUE, folds |-> << >>,
         attrs |-> IF known
                   THEN {"actual", "row_indices", "predicted", "probabilities"}
                   ELSE {},
         actual |-> IF known THEN [p \in 0..(n - 1) |-> -1] ELSE << >>,
         row_indices |-> IF known THEN [p \in 0..(n - 1) |-> -1] ELSE << >>,
         predicted |->
            IF known
            THEN [i \in 0..(nmethods - 1) |-> [p \in 0..(n - 1) |-> GarbageValue]]
            ELSE << >>,
         probabilities |->
            IF known
            THEN [i \in 0..(nmethods - 1) |->
                    [p \in 0..(n - 1) |-> [c \in 0..(NClasses - 1) |-> GarbageValue]]]
            ELSE << >>]

NoGetFold == [state |-> "none", err |-> "", fold |-> 0, built |-> NoResults,
              ret |-> "None"]

NoLoo == [X |-> 0, Y |-> 0, metas |-> 0, W |-> 0]

NoCtor == [dataGiven |-> FALSE, fitters |-> -1, outcome |-> "none"]

NoSelf == [cls |-> "", store_data |-> FALSE, store_models |-> FALSE, k |-> 0]

\* --------------------------------------------------------------------- Init
Init ==
    /\ \E n \in 0..MaxRows, w \in WeightKinds :
         /\ data0 = MkData(n, w)
         /\ heap = [a \in Addrs |->
                      CASE a = DataAddr.X -> MkData(n, w).X
                        [] a = DataAddr.Y -> MkData(n, w).Y
                        [] a = DataAddr.metas -> MkData(n, w).metas
                        [] a = DataAddr.W -> MkData(n, w).W
                        [] OTHER -> << >>]
    /\ self = NoSelf
    /\ pc = "idle"
    /\ ret = "none"
    /\ err = ""
    /\ oneShot = FALSE
    /\ nfit = 0
    /\ results = NoResults
    /\ indices = << >>
    /\ fold = 0
    /\ ptr = 0
    /\ loo = NoLoo
    /\ cycles = << >>
    /\ gf = NoGetFold
    /\ ctor = NoCtor

Classes == {"CrossValidation", "LeaveOneOut", "TestOnTrainingData"}

\* the fold counts a caller passes as k=..., 0 standing for "k not given"
KArgs == 0..MaxRows

\* A fresh run: nothing of an earlier run is left in the locals.
FreshRun ==
    /\ results' = NoResults
    /\ indices' = << >>
    /\ fold' = 0
    /\ ptr' = 0
    /\ loo' = NoLoo
    /\ cycles' = << >>
    /\ gf' = NoGetFold

\* Testing.__new__(cls, data, fitters, **kwargs), followed by the __init__ call
\* Python makes itself when __new__ returned an instance of cls.
\*   dataGiven: data is the dataset (else None)
\*   fitters:   -1 for None, else the length of the list
\*   positional: data / fitters were passed positionally
Construct(cls, dataGiven, fitters, positional, store_data, store_models, karg) ==
    LET fittersTrue == fitters > 0                 \* `if fitters:`
        dataTrue == dataGiven /\ NRows > 0          \* `if data:` is len(data) > 0
        k == IF cls = "CrossValidation"
             THEN (IF karg = 0 THEN DefaultK ELSE karg)
             ELSE 0
        obj == [cls |-> cls, store_data |-> store_data,
                store_models |-> store_models, k |-> k]
        hasArgs == dataGiven \/ fitters >= 0
    IN  /\ pc = "idle"
        /\ FreshRun
        /\ UNCHANGED <<heap, data0>>
        /\ IF fittersTrue
           THEN IF ~dataTrue
                THEN \* raise AttributeError("... is given fitters, but no data")
                     /\ pc' = "error" /\ err' = "AttributeError" /\ ret' = "raised"
                     /\ self' = NoSelf /\ oneShot' = FALSE /\ nfit' = 0
                ELSE \* self.__init__(**kwargs); return self(data, fitters)
                     /\ pc' = "call" /\ err' = "" /\ ret' = "none"
                     /\ self' = obj /\ oneShot' = TRUE /\ nfit' = fitters
           ELSE \* return self; then cls.__init__(self, *args, **kwargs)
                IF cls = "CrossValidation" /\ positional /\ hasArgs
                THEN \* CrossValidation.__init__(self, **kwargs) takes no positionals
                     /\ pc' = "error" /\ err' = "TypeError" /\ ret' = "raised"
                     /\ self' = NoSelf /\ oneShot' = FALSE /\ nfit' = 0
                ELSE /\ pc' = "configured" /\ err' = "" /\ ret' = "protocol"
                     /\ self' = obj /\ oneShot' = FALSE /\ nfit' = 0
        /\ ctor' = [dataGiven |-> dataGiven, fitters |-> fitters,
                    outcome |-> IF pc' = "call" THEN "run"
                                ELSE IF pc' = "configured" THEN "protocol"
                                ELSE err']

TestingNew ==
    \E cls \in Classes, dataGiven \in BOOLEAN, fitters \in -1..MaxFitters,
       positional \in BOOLEAN, store_data \in BOOLEAN, store_models \in BOOLEAN,
       karg \in KArgs :
        /\ (cls # "CrossValidation" => karg = 0)
        /\ (positional => (dataGiven \/ fitters >= 0))
        /\ Construct(cls, dataGiven, fitters, positional, store_data,
                     store_models, karg)

\* Entering cls.__call__(self, data, fitters) with len(fitters) = m: either
\* from Testing.__new__ (line 157), or called by the holder of a configured
\* protocol object on the dataset.
Entry(cls, m) ==
    /\ self.cls = cls
    /\ \/ pc = "call" /\ m = nfit
       \/ pc = "configured"
    /\ nfit' = m
    /\ gf' = NoGetFold
    /\ ctor' = IF pc = "call" THEN ctor ELSE NoCtor
    /\ UNCHANGED <<data0, self, oneShot>>

\* ---------------------------------------------------------- CrossValidation
\* cross_validation.KFold(n, k, shuffle=True): the shuffled row numbers perm
\* are cut into k consecutive blocks, the first n % k of them one longer;
\* block f is the test set of pair f and the rest is its training set.
FoldSize(n, k, f) == (n \div k) + (IF f < n % k THEN 1 ELSE 0)

FoldStart(n, k, f) == f * (n \div k) + Min(f, n % k)

KFold(n, k, perm) ==
    [f \in 0..(k - 1) |->
        LET start == FoldStart(n, k, f)
            size  == FoldSize(n, k, f)
        IN  [test  |-> [j \in 0..(size - 1) |-> perm[start + j]],
             train |-> [j \in 0..(n - size - 1) |->
                          perm[IF j < start THEN j ELSE j + size]]]]

\* the orders shuffle=True may leave the n row numbers in
Shuffles(n) ==
    {p \in [0..(n - 1) -> 0..(n - 1)] : \A a, b \in 0..(n - 1) : p[a] = p[b] => a = b}

\* lines 181-189: KFold refuses k < 2 and k > n with a ValueError
CVSetup(m, perm) ==
    LET n == NRows
        k == self.k
        r == ResultsInit(n, m, self.store_data)
    IN  /\ Entry("CrossValidation", m)
        /\ UNCHANGED <<heap, loo>>
        /\ cycles' = << >>
        /\ fold' = 0
        /\ ptr' = 0
        /\ IF k < 2 \/ k > n
           THEN /\ pc' = "error" /\ err' = "ValueError" /\ ret' = "raised"
                /\ results' = NoResults
                /\ indices' = << >>
           ELSE /\ pc' = "cv_loop" /\ err' = "" /\ ret' = "none"
                /\ indices' = KFold(n, k, perm)
                /\ results' = [r EXCEPT !.foldsNone = FALSE,
                                        !.modelsNone = ~self.store_models]

CrossValidationCall ==
    \E m \in 0..MaxFitters, perm \in Shuffles(NRows) : CVSetup(m, perm)

\* a slip for lines 199-200: every model of the round fitted by fitters[0]
RoundModelsFirst(m, train_data) == [i \in 0..(m - 1) |-> Fit(0, train_data)]

\* the models of one round, in fitter order
RoundModels(m, train_data) == [i \in 0..(m - 1) |-> Fit(i, train_data)]

\* a slip for line 191: fitting on data instead of data[train]
CVTrainDataLeaky(f) == DataTable

\* line 191: train_data, test_data = data[train], data[test]
CVTrainData(f) == TableSelect(DataTable, indices[f].train)

CVTestData(f) == TableSelect(DataTable, indices[f].test)

\* a slip for line 192: slice(ptr, len(test))
FoldSliceNoOffset(p, test) == [start |-> p, stop |-> Len0(test)]

\* line 192: fold_slice = slice(ptr, ptr + len(test))
FoldSlice(p, test) == [start |-> p, stop |-> p + Len0(test)]

\* a slip for line 206: ptr += 1
NextPtrByOne(p, test) == p + 1

\* line 206: ptr += len(test)
NextPtr(p, test) == p + Len0(test)

\* the fitter(train) / model(test) cycles of one round, in fitter order
RoundCycles(log, round, train_data, test_data, n) ==
    [j \in 0..(Len0(log) + n - 1) |->
        IF j < Len0(log) THEN log[j]
        ELSE [round |-> round, fitter |-> j - Len0(log),
              train |-> train_data, test |-> test_data]]

\* lines 190-206: one pass of `for train, test in indices`
CrossValidationFold ==
    LET test  == indices[fold].test
        train_data == CVTrainData(fold)
        test_data  == CVTestData(fold)
        fold_slice == FoldSlice(ptr, test)
        lo == fold_slice.start
        hi == fold_slice.stop
        models == RoundModels(nfit, train_data)
    IN  /\ pc = "cv_loop"
        /\ fold < Len0(indices)
        /\ results' =
             [results EXCEPT
                !.folds = Append0(@, fold_slice),
                !.row_indices = SetSlice(@, lo, hi, test),
                !.actual = SetSlice(@, lo, hi, test_data.Y),
                !.models = IF self.store_models THEN Append0(@, models) ELSE @,
                !.predicted =
                    [i \in DOMAIN @ |->
                        SetSlice(@[i], lo, hi, Values(models[i], test_data))],
                !.probabilities =
                    [i \in DOMAIN @ |->
                        SetSlice(@[i], lo, hi, Probs(models[i], test_data))]]
        /\ cycles' = RoundCycles(cycles, fold, train_data, test_data, nfit)
        /\ ptr' = NextPtr(ptr, test)
        /\ fold' = fold + 1
        /\ UNCHANGED <<heap, data0, self, pc, ret, err, oneShot, nfit, indices,
                       loo, gf, ctor>>

\* line 207: return results
CrossValidationReturn ==
    /\ pc = "cv_loop"
    /\ fold = Len0(indices)
    /\ pc' = "done"
    /\ ret' = "results"
    /\ UNCHANGED <<heap, data0, self, err, oneShot, nfit, results, indices,
                   fold, ptr, loo, cycles, gf, ctor>>

\* -------------------------------------------------------------- LeaveOneOut
\* a slip for lines 217-219, 225: the buffer itself instead of a copy of it
NpAlias(a) == a

\* ndarray.copy(): a fresh buffer, at an address of its own
NpCopy(a) == a + NBufs

\* a slip for lines 235-237: a[i] = a[j]; a[j] = a[i], one store after the other
SwapInPlace(a, i, j) == [x \in DOMAIN a |-> IF x = i THEN a[j] ELSE a[x]]

\* a[[i, j]] = a[[j, i]]: the right-hand side is gathered before the store
Swap(a, i, j) ==
    [x \in DOMAIN a |-> IF x = i THEN a[j] ELSE IF x = j THEN a[i] ELSE a[x]]

\* lines 214-233
LOOSetup(m) ==
    LET n == NRows
        r == ResultsInit(n, m, self.store_data)
        X == NpCopy(DataAddr.X)
        Y == NpCopy(DataAddr.Y)
        metas == NpCopy(DataAddr.metas)
        W == IF HasWeights THEN NpCopy(DataAddr.W) ELSE 0
        h1 == [heap EXCEPT ![X] = heap[DataAddr.X]]
        h2 == [h1 EXCEPT ![Y] = h1[DataAddr.Y]]
        h3 == [h2 EXCEPT ![metas] = h2[DataAddr.metas]]
        h4 == IF HasWeights THEN [h3 EXCEPT ![W] = h3[DataAddr.W]] ELSE h3
    IN  /\ Entry("LeaveOneOut", m)
        /\ heap' = h4
        /\ loo' = [X |-> X, Y |-> Y, metas |-> metas, W |-> W]
        /\ results' = [r EXCEPT !.row_indices = Arange(n),
                                !.actual = h4[Y],
                                !.attrs = @ \cup {"row_indices", "actual"},
                                !.modelsNone = ~self.store_models]
        /\ pc' = "loo_loop" /\ err' = "" /\ ret' = "none"
        /\ fold' = 0
        /\ cycles' = << >>
        /\ UNCHANGED <<indices, ptr>>

LeaveOneOutCall == \E m \in 0..MaxFitters : LOOSetup(m)

\* `if W:` for W None or a numpy vector: None is false, a vector of one
\* element has the truth value of that element, and a longer one has none
\* (ValueError: the truth value of an array ... is ambiguous).
TruthOfW(w) ==
    IF w = 0 THEN "false"
    ELSE IF Len0(heap[w]) > 1 THEN "ValueError"
    ELSE IF Len0(heap[w]) = 1 /\ heap[w][0] # 0 THEN "true"
    ELSE "false"

\* lines 234-251: one pass of `for test_idx in results.row_indices`
LeaveOneOutCycle ==
    LET test_idx == results.row_indices[fold]
        h1 == [heap EXCEPT ![loo.X] = Swap(@, 0, test_idx)]
        h2 == [h1 EXCEPT ![loo.Y] = Swap(@, 0, test_idx)]
        h3 == [h2 EXCEPT ![loo.metas] = Swap(@, 0, test_idx)]
        truth == TruthOfW(loo.W)
        h4 == IF truth = "true" THEN [h3 EXCEPT ![loo.W] = Swap(@, 0, test_idx)]
              ELSE h3
        n == Len0(h4[loo.X])
        \* teX, trX, ... are views X[:1], X[1:] of the working buffers
        test_data ==
            [X |-> SliceOf(h4[loo.X], 0, 1), Y |-> SliceOf(h4[loo.Y], 0, 1),
             metas |-> SliceOf(h4[loo.metas], 0, 1),
             W |-> IF loo.W = 0 THEN << >> ELSE SliceOf(h4[loo.W], 0, 1)]
        train_data ==
            [X |-> SliceOf(h4[loo.X], 1, n), Y |-> SliceOf(h4[loo.Y], 1, n),
             metas |-> SliceOf(h4[loo.metas], 1, n),
             W |-> IF loo.W = 0 THEN << >> ELSE SliceOf(h4[loo.W], 1, n)]
        models == RoundModels(nfit, train_data)
    IN  /\ pc = "loo_loop"
        /\ fold < Len0(results.row_indices)
        /\ heap' = h4
        /\ IF truth = "ValueError"
           THEN /\ pc' = "error" /\ err' = "ValueError" /\ ret' = "raised"
                /\ UNCHANGED <<results, cycles, fold>>
           ELSE /\ results' =
                    [results EXCEPT
                       !.models = IF self.store_models THEN Append0(@, models)
                                  ELSE @,
                       !.predicted =
                           [i \in DOMAIN @ |->
                               [@[i] EXCEPT ![test_idx] =
                                   Values(models[i], test_data)[0]]],
                       !.probabilities =
                           [i \in DOMAIN @ |->
                               [@[i] EXCEPT ![test_idx] =
                                   Probs(models[i], test_data)[0]]]]
                /\ cycles' = RoundCycles(cycles, fold, train_data, test_data, nfit)
                /\ fold' = fold + 1
                /\ UNCHANGED <<pc, err, ret>>
        /\ UNCHANGED <<data0, self, oneShot, nfit, indices, ptr, loo, gf, ctor>>

\* line 252: return results
LeaveOneOutReturn ==
    /\ pc = "loo_loop"
    /\ fold = Len0(results.row_indices)
    /\ pc' = "done"
    /\ ret' = "results"
    /\ UNCHANGED <<heap, data0, self, err, oneShot, nfit, results, indices,
                   fold, ptr, loo, cycles, gf, ctor>>

\* ------------------------------------------------------- TestOnTrainingData
\* lines 259-272.  results.predicted[i] = values needs the attribute that
\* Results.__init__ creates only when it knows the number of rows.
TOTDRun(m) ==
    LET n == NRows
        r == ResultsInit(n, m, self.store_data)
        data == DataTable
        models == RoundModels(m, data)
        fails == m > 0 /\ "predicted" \notin r.attrs
        done == IF fails THEN 1 ELSE m
    IN  /\ Entry("TestOnTrainingData", m)
        /\ cycles' = [j \in 0..(done - 1) |->
                        [round |-> 0, fitter |-> j, train |-> data, test |-> data]]
        /\ IF fails
           THEN /\ pc' = "error" /\ err' = "AttributeError" /\ ret' = "raised"
                /\ results' = NoResults
           ELSE /\ pc' = "done" /\ err' = "" /\ ret' = "results"
                /\ results' =
                     [r EXCEPT
                        !.row_indices = Arange(n),
                        !.actual = data.Y,
                        !.attrs = @ \cup {"row_indices", "actual"},
                        !.modelsNone = ~self.store_models,
                        !.models = IF self.store_models THEN Append0(<< >>, models)
                                  ELSE << >>,
                        !.predicted =
                            [i \in DOMAIN @ |-> Values(models[i], data)],
                        !.probabilities =
                            [i \in DOMAIN @ |-> Probs(models[i], data)]]
        /\ UNCHANGED <<heap, indices, fold, ptr, loo>>

TestOnTrainingDataCall == \E m \in 0..MaxFitters : TOTDRun(m)

\* ------------------------------------------------------- Results.get_fold
\* lines 102-109, called on the Results a protocol returned.  The slice
\* self.folds[fold] indexes the first axis of every array; the function ends
\* without a return statement.
GetFoldOutcome(f) ==
    IF results.modelsNone THEN "TypeError"
    ELSE IF f >= Len0(results.models) THEN "IndexError"
    ELSE IF results.foldsNone THEN "TypeError"
    ELSE IF f >= Len0(results.folds) THEN "IndexError"
    ELSE "ok"

GetFoldBuilt(f) ==
    LET s == results.folds[f]
    IN  [NoResults EXCEPT
           !.data = results.data,
           !.modelsNone = FALSE,
           !.models = results.models[f],
           !.attrs = {"actual", "predicted", "probabilities", "row_indices"},
           !.actual = SliceOf(results.actual, s.start, s.stop),
           !.predicted = SliceOf(results.predicted, s.start, s.stop),
           !.probabilities = SliceOf(results.probabilities, s.start, s.stop),
           !.row_indices = SliceOf(results.row_indices, s.start, s.stop)]

\* what the call evaluates to
GetFoldReturn(f) == "None"

GetFold(f) ==
    /\ pc = "done"
    /\ ret = "results"
    /\ gf.state = "none"
    /\ gf' = IF GetFoldOutcome(f) = "ok"
             THEN [state |-> "returned", err |-> "", fold |-> f,
                   built |-> GetFoldBuilt(f), ret |-> GetFoldReturn(f)]
             ELSE [state |-> "raised", err |-> GetFoldOutcome(f), fold |-> f,
                   built |-> NoResults, ret |-> "None"]
    /\ UNCHANGED <<heap, data0, self, pc, ret, err, oneShot, nfit, results,
                   indices, fold, ptr, loo, cycles, ctor>>

\* every fold number of the result, and the first one past them
ResultsGetFold == \E f \in 0..Len0(results.folds) : GetFold(f)

\* ------------------------------------------------------------- the caller
\* The working buffers of a finished call are freed; the caller's stay.
Collected ==
    [a \in Addrs |-> IF a \in {DataAddr.X, DataAddr.Y, DataAddr.metas, DataAddr.W}
                     THEN heap[a] ELSE << >>]

\* The holder of a configured protocol object keeps it for another call.
Reuse ==
    /\ pc \in {"done", "error"}
    /\ self # NoSelf
    /\ ~oneShot
    /\ pc' = "configured"
    /\ ret' = "protocol"
    /\ err' = ""
    /\ nfit' = 0
    /\ FreshRun
    /\ heap' = Collected
    /\ UNCHANGED <<data0, self, oneShot, ctor>>

\* The caller drops what it holds and constructs anew.
Discard ==
    /\ pc \in {"done", "error", "configured"}
    /\ pc' = "idle"
    /\ ret' = "none"
    /\ err' = ""
    /\ nfit' = 0
    /\ self' = NoSelf
    /\ oneShot' = FALSE
    /\ FreshRun
    /\ heap' = Collected
    /\ ctor' = NoCtor
    /\ UNCHANGED data0

Next ==
    \/ TestingNew
    \/ CrossValidationCall
    \/ CrossValidationFold
    \/ CrossValidationReturn
    \/ LeaveOneOutCall
    \/ LeaveOneOutCycle
    \/ LeaveOneOutReturn
    \/ TestOnTrainingDataCall
    \/ ResultsGetFold
    \/ Reuse
    \/ Discard

Spec == Init /\ [][Next]_vars

\* ==================================================================== claims
IsCV == self.cls = "CrossValidation"
IsLOO == self.cls = "LeaveOneOut"
IsTOTD == self.cls = "TestOnTrainingData"

\* number of rows of the dataset handed over
N0 == Len0(data0.X)

Positions(s) == s.start..(s.stop - 1)

\* the set of the elements of an array
Range0(a) == {a[j] : j \in DOMAIN a}

\* the source rows held out in the folds other than f
OtherFoldRows(f) ==
    UNION {Range0(indices[g].test) : g \in (DOMAIN indices) \ {f}}

\* C1: in cross-validation, for every processed fold, every position p of it
\* and every fitter i, predicted[i][p] and probabilities[i][p] are the output,
\* for source row row_indices[p], of fitter i's model trained on exactly the
\* rows of all other folds (row_indices[p] not among them), and actual[p] is
\* the target of source row row_indices[p].
NoLeakageAndAlignment ==
    (IsCV /\ pc \in {"cv_loop", "done"}) =>
        \A f \in 0..(fold - 1) :
            \A p \in Positions(results.folds[f]) :
                LET row == results.row_indices[p]
                IN  /\ row \in 0..(N0 - 1)
                    /\ results.actual[p] = data0.Y[row]
                    /\ \A i \in 0..(nfit - 1) :
                        LET v == results.predicted[i][p]
                        IN  /\ v.fitter = i
                            /\ v.x = data0.X[row]
                            /\ Len0(v.trainX) = Cardinality(OtherFoldRows(f))
                            /\ Range0(v.trainX) =
                                  {data0.X[r] : r \in OtherFoldRows(f)}
                            /\ data0.X[row] \notin Range0(v.trainX)
                            /\ \A c \in 0..(NClasses - 1) :
                                  results.probabilities[i][p][c] = v

\* a finished cross-validation of uneven folds with shuffled rows and 2 fitters
NoLeakageWitness ==
    /\ IsCV /\ pc = "done" /\ nfit = 2 /\ N0 = 3 /\ self.k = 2
    /\ results.row_indices # Arange(N0)

\* C2: when cross-validation returns, row_indices is a permutation of
\* 0..n-1, and the rows written for fold f are the source rows KFold held
\* out in round f.
RowIndicesPermutation ==
    (IsCV /\ pc = "done") =>
        /\ Len0(results.row_indices) = N0
        /\ Range0(results.row_indices) = 0..(N0 - 1)
        /\ \A f \in DOMAIN indices :
              \A j \in DOMAIN indices[f].test :
                  results.row_indices[FoldStart(N0, self.k, f) + j]
                      = indices[f].test[j]

RowIndicesWitness ==
    /\ IsCV /\ pc = "done" /\ N0 = 3 /\ self.k = 3
    /\ results.row_indices[0] = 2 /\ results.row_indices[1] = 0

\* C3: when cross-validation with k folds returns, folds has k members in
\* processing order, each starting where the previous one ended, the first
\* at 0 and the last ending at n; their sizes differ by at most one and are
\* n/k when k divides n.
FoldsPartition ==
    (IsCV /\ pc = "done") =>
        LET F == results.folds
            size(f) == F[f].stop - F[f].start
        IN  /\ ~results.foldsNone
            /\ Len0(F) = self.k
            /\ F[0].start = 0
            /\ F[self.k - 1].stop = N0
            /\ \A f \in 1..(self.k - 1) : F[f].start = F[f - 1].stop
            /\ \A f \in DOMAIN F : size(f) = Len0(indices[f].test)
            /\ \A f, g \in DOMAIN F : size(f) - size(g) <= 1
            /\ (N0 % self.k = 0 => \A f \in DOMAIN F : size(f) = N0 \div self.k)

FoldsPartitionWitness ==
    /\ IsCV /\ pc = "done" /\ N0 = 3 /\ self.k = 2
    /\ results.folds[0] = [start |-> 0, stop |-> 2]
    /\ results.folds[1] = [start |-> 2, stop |-> 3]

\* position t of a training table holds original row q, all columns of it
HoldsRow(train, t, q) ==
    /\ train.X[t] = data0.X[q]
    /\ train.Y[t] = data0.Y[q]
    /\ train.metas[t] = data0.metas[q]

\* C4: leave-one-out on an unweighted dataset runs its cycles in row order,
\* one per fitter and row; in the cycles of round r the test table is
\* original row r alone, the training table holds every other original row
\* exactly once and not row r, and the outcome is what predicted[i][r] and
\* probabilities[i][r] hold; at the return n rounds were made.
LeaveOneOutCycles ==
    (IsLOO /\ ~data0.hasW /\ pc \in {"loo_loop", "done"}) =>
        /\ Len0(cycles) = fold * nfit
        /\ (pc = "done" => fold = N0)
        /\ \A j \in DOMAIN cycles :
            LET c == cycles[j]
                r == c.round
                i == c.fitter
            IN  /\ r = j \div nfit
                /\ i = j % nfit
                /\ Len0(c.test.X) = 1
                /\ HoldsRow(c.test, 0, r)
                /\ Len0(c.train.X) = N0 - 1
                /\ \A q \in (0..(N0 - 1)) \ {r} :
                      Cardinality({t \in DOMAIN c.train.X : HoldsRow(c.train, t, q)}) = 1
                /\ data0.X[r] \notin Range0(c.train.X)
                /\ results.predicted[i][r] = Value(Fit(i, c.train), c.test, 0)
                /\ \A k \in 0..(NClasses - 1) :
                      results.probabilities[i][r][k] = Value(Fit(i, c.train), c.test, 0)

\* a finished run of three rounds whose working buffer ended up permuted
LeaveOneOutWitness ==
    /\ IsLOO /\ ~data0.hasW /\ pc = "done" /\ N0 = 3 /\ nfit = 2
    /\ heap[loo.X] # data0.X
    /\ Len0(cycles) = 6

\* C5: on a cross-validation result with retained models, get_fold(f) for a
\* valid f returns a new Results with the same data reference, models[f],
\* and actual, row_indices, predicted, probabilities restricted to the
\* positions folds[f] along the row dimension.
GetFoldContract ==
    (IsCV /\ pc = "done" /\ self.store_models /\ gf.state # "none"
          /\ gf.fold < Len0(results.folds)) =>
        LET s == results.folds[gf.fold]
        IN  /\ gf.state = "returned"
            /\ gf.ret = "Results"
            /\ gf.built.data = results.data
            /\ gf.built.models = results.models[gf.fold]
            /\ gf.built.actual = SliceOf(results.actual, s.start, s.stop)
            /\ gf.built.row_indices = SliceOf(results.row_indices, s.start, s.stop)
            /\ gf.built.predicted =
                  [i \in 0..(nfit - 1) |->
                      SliceOf(results.predicted[i], s.start, s.stop)]
            /\ gf.built.probabilities =
                  [i \in 0..(nfit - 1) |->
                      SliceOf(results.probabilities[i], s.start, s.stop)]

\* C6: a construction given a dataset and a fitter list (of any length) runs
\* the protocol and yields a Results; one given neither yields a protocol
\* object that has not run; one given fitters without a dataset fails with
\* the configuration error and runs no fitter.
ConstructionOutcome ==
    (ctor.outcome # "none") =>
        /\ (ctor.dataGiven /\ ctor.fitters >= 0) =>
              /\ ctor.outcome = "run"
              /\ (pc = "done" => ret = "results")
        /\ (~ctor.dataGiven /\ ctor.fitters = -1) =>
              /\ ctor.outcome = "protocol"
              /\ pc = "configured"
              /\ cycles = << >>
        /\ (~ctor.dataGiven /\ ctor.fitters >= 0) =>
              /\ ctor.outcome = "AttributeError"
              /\ cycles = << >>

\* a run ended by an exception raised inside __call__
RunRaised == pc = "error" /\ self # NoSelf

\* C7: the Results a protocol returns for n rows and m fitters has
\* row_indices, actual of length n, predicted and probabilities of m rows of
\* length n; and a run with no fitters (the fold count, for cross-validation,
\* between 2 and n) ends without error.
ResultShapes ==
    /\ (pc = "done") =>
          /\ {"row_indices", "actual", "predicted", "probabilities"}
                \subseteq results.attrs
          /\ Len0(results.row_indices) = N0
          /\ Len0(results.actual) = N0
          /\ Len0(results.predicted) = nfit
          /\ Len0(results.probabilities) = nfit
          /\ \A i \in 0..(nfit - 1) :
                /\ Len0(results.predicted[i]) = N0
                /\ Len0(results.probabilities[i]) = N0
    /\ (nfit = 0 /\ (IsCV => (2 <= self.k /\ self.k <= N0))) => ~RunRaised

\* the same for a dataset that has rows and no weights: the shapes hold
ResultShapesNonEmpty ==
    (N0 > 0 /\ ~data0.hasW) => ResultShapes

\* C8: with store_models set, the returned models has one entry per round
\* (as many as folds for cross-validation, one for TestOnTrainingData), each
\* holding the nmethods models of that round in fitter order; without it,
\* models stays None.
ModelsRetained ==
    (pc = "done" /\ (IsCV \/ IsTOTD)) =>
        IF self.store_models
        THEN /\ ~results.modelsNone
             /\ Len0(results.models) = (IF IsCV THEN Len0(results.folds) ELSE 1)
             /\ \A f \in DOMAIN results.models :
                   /\ Len0(results.models[f]) = nfit
                   /\ \A i \in 0..(nfit - 1) :
                         LET c == cycles[f * nfit + i]
                         IN  /\ c.round = f
                             /\ c.fitter = i
                             /\ results.models[f][i] = Fit(i, c.train)
        ELSE /\ results.modelsNone
             /\ results.models = << >>

ModelsRetainedWitness ==
    /\ IsCV /\ pc = "done" /\ self.store_models /\ nfit = 2
    /\ Len0(results.models) = 3
    /\ results.models[2][1].fitter = 1

\* C9: in every state, whatever protocols have run, the caller's feature
\* matrix, target vector, metadata and weights hold the values they were
\* handed over with, in the same order.
InputUnchanged ==
    /\ heap[DataAddr.X] = data0.X
    /\ heap[DataAddr.Y] = data0.Y
    /\ heap[DataAddr.metas] = data0.metas
    /\ heap[DataAddr.W] = data0.W

\* leave-one-out has swapped rows in its working buffers and returned
InputUnchangedWitness ==
    /\ IsLOO /\ pc = "done" /\ N0 = 3
    /\ heap[loo.X] # data0.X
    /\ heap[loo.Y] # data0.Y
    /\ heap[loo.metas] # data0.metas

\* C10: leave-one-out on a weighted dataset raises nothing, and in every
\* cycle the test row carries the weight of original row r and each
\* training row carries its own original weight.
WeightedLeaveOneOut ==
    (IsLOO /\ data0.hasW) =>
        /\ ~RunRaised
        /\ \A j \in DOMAIN cycles :
            LET c == cycles[j]
            IN  /\ c.test.W = [z \in 0..0 |-> data0.W[c.round]]
                /\ \A t \in DOMAIN c.train.X :
                      \E q \in 0..(N0 - 1) :
                          /\ HoldsRow(c.train, t, q)
                          /\ c.train.W[t] = data0.W[q]
====
